---- MODULE Spec2Model ----
(***************************************************************************)
(* Brand Identity Analyzer (src/api/index.js): the POST /api/analyze       *)
(* handler, its result cache, and the extraction pipeline behind it.       *)
(*                                                                         *)
(* Text is modelled structurally.  A hex colour is the sequence of its     *)
(* characters ("#" first), an rgb()/hsl() value is a record of the numbers *)
(* the code's patterns capture, a CSS text is the sequence of the          *)
(* declarations the code's patterns match in it, and a parsed page is a    *)
(* record of the elements the selectors of the code select.                *)
(***************************************************************************)
EXTENDS Integers, Sequences, FiniteSets, TLC

VARIABLES
    now,        \* wall clock, in seconds
    cache,      \* NodeCache: key -> None or [v |-> record, t |-> expiry]
    site,       \* the web: normalized URL -> page served there
    pc,         \* per request: "idle", "fetchPage", "extract", "done"
    rq,         \* per request: the handler's locals
    response,   \* per request: what res.status(..).json(..) sent
    hist,       \* per request: observations of the run (network use, errors)
    writes,     \* every cache.set so far, in order
    started,    \* number of requests received so far
    arg,        \* argument of a function applied on its own
    ret         \* its return value

vars == <<now, cache, site, pc, rq, response, hist, writes, started, arg, ret>>

\* null for a string or an object is the empty sequence, a value x is <<x>>;
\* a null hex string is the empty string, which the code treats alike (!hex)
Null == <<>>
Some(x) == <<x>>
\* NaN, for parseInt: outside every number two hex characters can spell
NaN == 0 - 100000

Min(a, b) == IF a <= b THEN a ELSE b
Max(a, b) == IF a >= b THEN a ELSE b

RECURSIVE Concat(_)
Concat(ss) == IF ss = <<>> THEN <<>> ELSE Head(ss) \o Concat(Tail(ss))

Range(s) == {s[i] : i \in 1..Len(s)}

\* Array.prototype.slice(0, n)
Take(s, n) == SubSeq(s, 1, Min(n, Len(s)))

(***************************************************************************)
(* Characters and numbers of a hex colour.                                 *)
(***************************************************************************)
UpperDigits == <<"0", "1", "2", "3", "4", "5", "6", "7", "8", "9", "A", "B", "C", "D", "E", "F">>
LowerDigits == <<"0", "1", "2", "3", "4", "5", "6", "7", "8", "9", "a", "b", "c", "d", "e", "f">>

IsHexChar(c) == c \in Range(UpperDigits) \cup Range(LowerDigits)

HexVal(c) == CHOOSE v \in 0..15 : UpperDigits[v + 1] = c \/ LowerDigits[v + 1] = c

\* String.prototype.toUpperCase, character by character
UpperChar(c) == IF c \in Range(LowerDigits) THEN UpperDigits[HexVal(c) + 1] ELSE c
toUpperCase(s) == [i \in 1..Len(s) |-> UpperChar(s[i])]

\* Number.prototype.toString(16) of an integer
RECURSIVE NatToString16(_)
NatToString16(n) ==
    IF n < 16 THEN <<LowerDigits[n + 1]>>
    ELSE NatToString16(n \div 16) \o <<LowerDigits[(n % 16) + 1]>>

toString16(n) == IF n < 0 THEN <<"-">> \o NatToString16(0 - n) ELSE NatToString16(n)

\* String.prototype.padStart(2, '0')
padStart2(s) == IF Len(s) >= 2 THEN s ELSE IF Len(s) = 1 THEN <<"0">> \o s ELSE <<"0", "0">>

\* String.prototype.slice(a, b) for 0 <= a <= b
slice(s, a, b) == SubSeq(s, a + 1, Min(b, Len(s)))

\* parseInt(s, 16): the longest prefix of s that is a hexadecimal number
RECURSIVE HexPrefixVal(_, _)
HexPrefixVal(s, acc) ==
    IF s = <<>> \/ ~IsHexChar(Head(s)) THEN acc
    ELSE HexPrefixVal(Tail(s), 16 * acc + HexVal(Head(s)))

parseInt16(s) ==
    IF s = <<>> THEN NaN
    ELSE IF Head(s) = "-"
         THEN IF Len(s) >= 2 /\ IsHexChar(s[2]) THEN 0 - HexPrefixVal(Tail(s), 0) ELSE NaN
         ELSE IF IsHexChar(Head(s)) THEN HexPrefixVal(s, 0) ELSE NaN

(***************************************************************************)
(* Colour values as the patterns of extractColorsFromCSS capture them.     *)
(***************************************************************************)
\* every value is a record of the same shape; the fields a form does not use are 0
Hex(digits) == [form |-> "hex", digits |-> digits, x |-> 0, y |-> 0, z |-> 0]
Rgb(r, g, b) == [form |-> "rgb", digits |-> <<>>, x |-> r, y |-> g, z |-> b]
Hsl(h, s, l) == [form |-> "hsl", digits |-> <<>>, x |-> h, y |-> s, z |-> l]
\* rgb(...)/hsl(...) text that the patterns of normalizeColor do not match,
\* such as rgb(255 0 0) or hsl(120deg 50% 50%)
Unparsed == [form |-> "other", digits |-> <<>>, x |-> 0, y |-> 0, z |-> 0]

\* Math.round(num / den) for den > 0: the nearest integer, halves upwards
RoundDiv(num, den) == (2 * num + den) \div (2 * den)

\* f(n) of hslToHex; k, a and color are kept as exact fractions:
\* K = 30 * k, and color = (3000 * l - s * min(l, 100 - l) * T) / 300000
\* where T = 30 * max(min(k - 3, 9 - k, 1), -1)
hslChannel(h, s, l, n) ==
    LET K == (30 * n + h) % 360
        T == Max(Min(Min(K - 90, 270 - K), 30), -30)
    IN  padStart2(toString16(RoundDiv(255 * (3000 * l - s * Min(l, 100 - l) * T), 300000)))

hslToHex(h, s, l) ==
    toUpperCase(<<"#">> \o hslChannel(h, s, l, 0) \o hslChannel(h, s, l, 8) \o hslChannel(h, s, l, 4))

normalizeColor(colorStr) ==
    IF colorStr.form = "hex" THEN
        LET d == colorStr.digits
        IN  IF Len(d) = 6 THEN toUpperCase(<<"#">> \o d)
            ELSE IF Len(d) = 3 THEN toUpperCase(<<"#", d[1], d[1], d[2], d[2], d[3], d[3]>>)
            ELSE IF Len(d) = 8 THEN toUpperCase(slice(<<"#">> \o d, 0, 7))
            ELSE Null
    ELSE IF colorStr.form = "rgb" THEN
        toUpperCase(<<"#">> \o padStart2(toString16(colorStr.x))
                            \o padStart2(toString16(colorStr.y))
                            \o padStart2(toString16(colorStr.z)))
    ELSE IF colorStr.form = "hsl" THEN hslToHex(colorStr.x, colorStr.y, colorStr.z)
    ELSE Null

isBlackOrWhite(hex) ==
    IF hex = Null \/ Len(hex) < 6 THEN FALSE
    ELSE LET r == parseInt16(slice(hex, 1, 3))
             g == parseInt16(slice(hex, 3, 5))
             b == parseInt16(slice(hex, 5, 7))
         IN  IF NaN \in {r, g, b} THEN FALSE
             \* brightness = (r + g + b) / 3 > 230 or < 25
             ELSE r + g + b > 3 * 230 \/ r + g + b < 3 * 25

(***************************************************************************)
(* CSS text: the sequence of the declarations in it that a pattern of the  *)
(* code can match.  kind is one of                                         *)
(*   "brandvar"   a custom property whose name holds a word of the brand   *)
(*                vocabulary, with a colour value                          *)
(*   "plainvar"   any other custom property with a colour value            *)
(*   "colorprop"  background, background-color, color, border-color, fill  *)
(*                or stroke, with a colour value                           *)
(*   "fontface"   font-family inside an @font-face block                   *)
(*   "fontfamily" font-family in a rule, with its comma-separated families *)
(*   "fontvar"    a custom property whose name holds "font"                *)
(***************************************************************************)
NoColor == Unparsed
BrandVar(c) == [kind |-> "brandvar", color |-> c, names |-> <<>>]
PlainVar(c) == [kind |-> "plainvar", color |-> c, names |-> <<>>]
ColorProp(c) == [kind |-> "colorprop", color |-> c, names |-> <<>>]
FontFace(n) == [kind |-> "fontface", color |-> NoColor, names |-> <<n>>]
FontFamily(ns) == [kind |-> "fontfamily", color |-> NoColor, names |-> ns]
FontVar(n) == [kind |-> "fontvar", color |-> NoColor, names |-> <<n>>]

\* the declarations of one kind, in the order of the text (one pattern's matches)
RECURSIVE Matches(_, _)
Matches(cssText, kinds) ==
    IF cssText = <<>> THEN <<>>
    ELSE (IF Head(cssText).kind \in kinds THEN <<Head(cssText)>> ELSE <<>>)
         \o Matches(Tail(cssText), kinds)

\* A JavaScript Set of strings: its members in insertion order
SetAdd(set, x) == IF x \in Range(set) THEN set ELSE Append(set, x)

RECURSIVE SetAddAll(_, _)
SetAddAll(set, xs) == IF xs = <<>> THEN set ELSE SetAddAll(SetAdd(set, Head(xs)), Tail(xs))

\* A JavaScript Map hex -> count: its entries in insertion order
MapHas(map, hex) == \E i \in 1..Len(map) : map[i].hex = hex
MapGet(map, hex) == IF MapHas(map, hex) THEN (CHOOSE e \in Range(map) : e.hex = hex).count ELSE 0

\* colorMap.set(hex, (colorMap.get(hex) || 0) + n)
MapBumpLost(map, hex, n) ==
    IF MapHas(map, hex)
    THEN [i \in 1..Len(map) |-> IF map[i].hex = hex THEN [hex |-> hex, count |-> n] ELSE map[i]]
    ELSE Append(map, [hex |-> hex, count |-> n])

MapBump(map, hex, n) ==
    IF MapHas(map, hex)
    THEN [i \in 1..Len(map) |->
            IF map[i].hex = hex THEN [hex |-> hex, count |-> map[i].count + n] ELSE map[i]]
    ELSE Append(map, [hex |-> hex, count |-> n])

\* map.forEach((count, hex) => colorMap.set(hex, (colorMap.get(hex) || 0) + count))
RECURSIVE MapMerge(_, _)
MapMerge(colorMap, map) ==
    IF map = <<>> THEN colorMap
    ELSE MapMerge(MapBump(colorMap, Head(map).hex, Head(map).count), Tail(map))

(***************************************************************************)
(* Fonts.                                                                  *)
(***************************************************************************)
GenericFamilies ==
    {"serif", "sans-serif", "monospace", "cursive", "fantasy", "inherit", "initial", "unset"}

\* The font names of the pages below, with String.prototype.length and
\* toLowerCase of those that need it
strlen(name) ==
    CASE name = "X" -> 1
      [] name = "Serif" -> 5
      [] name = "Roboto" -> 6
      [] name = "Open Sans" -> 9
      [] name = "Inter" -> 5
      [] name = "Lora" -> 4
      [] name = "Fira Code" -> 9
      [] name = "Georgia" -> 7
      [] name = "Arial" -> 5
      [] name = "Helvetica" -> 9
      [] name = "Futura" -> 6
      [] name = "sans-serif" -> 10
      [] name = "monospace" -> 9
      [] OTHER -> 8

toLowerCase(name) == IF name = "Serif" THEN "serif" ELSE name

\* the families of the font-family declarations that pass the filters, in order
RECURSIVE FamilyNames(_)
FamilyNames(names) ==
    IF names = <<>> THEN <<>>
    ELSE LET f == Head(names)
         IN  (IF toLowerCase(f) \notin GenericFamilies /\ strlen(f) > 1 /\ strlen(f) < 60
              THEN <<f>> ELSE <<>>) \o FamilyNames(Tail(names))

RECURSIVE VarNames(_)
VarNames(names) ==
    IF names = <<>> THEN <<>>
    ELSE (IF strlen(Head(names)) > 1 /\ strlen(Head(names)) < 60 THEN <<Head(names)>> ELSE <<>>)
         \o VarNames(Tail(names))

RECURSIVE AllNames(_)
AllNames(decls) == IF decls = <<>> THEN <<>> ELSE Head(decls).names \o AllNames(Tail(decls))

extractFontsFromCSS(cssText) ==
    LET faces == AllNames(Matches(cssText, {"fontface"}))
        \* the font-family pattern also matches the declaration of an @font-face block
        families == FamilyNames(AllNames(Matches(cssText, {"fontface", "fontfamily"})))
        fontvars == VarNames(AllNames(Matches(cssText, {"fontvar"})))
    IN  SetAddAll(SetAddAll(SetAddAll(<<>>, faces), families), fontvars)

\* the families named by the Google Fonts links and @imports of the page, link by link
extractGoogleFonts(doc) == SetAddAll(<<>>, Concat(doc.googleFonts))

(***************************************************************************)
(* Colours.                                                                *)
(***************************************************************************)
RECURSIVE CountColors(_, _, _)
CountColors(colorMap, decls, weight) ==
    IF decls = <<>> THEN colorMap
    ELSE LET hex == normalizeColor(Head(decls).color)
         IN  CountColors(IF hex # Null /\ ~isBlackOrWhite(hex) THEN MapBump(colorMap, hex, weight)
                         ELSE colorMap,
                         Tail(decls), weight)

extractColorsFromCSS(cssText) ==
    CountColors(CountColors(<<>>, Matches(cssText, {"brandvar"}), 3),
                Matches(cssText, {"colorprop"}), 1)

\* [...].sort((a, b) => b[1] - a[1]): a stable sort, by insertion into the sorted prefix
RECURSIVE InsertByCount(_, _)
InsertByCount(sorted, e) ==
    IF sorted = <<>> THEN <<e>>
    ELSE IF Head(sorted).count >= e.count THEN <<Head(sorted)>> \o InsertByCount(Tail(sorted), e)
    ELSE <<e>> \o sorted

RECURSIVE SortByCount(_, _)
SortByCount(sorted, entries) ==
    IF entries = <<>> THEN sorted
    ELSE SortByCount(InsertByCount(sorted, Head(entries)), Tail(entries))

thresholdLabel(count) == IF count > 5 THEN "Primary" ELSE IF count > 2 THEN "Secondary" ELSE "Accent"

\* labelColors without the relabelling of the top three
labelColorsOnePass(colorMap) ==
    LET top == Take(SortByCount(<<>>, colorMap), 8)
    IN  [i \in 1..Len(top) |->
            [hex |-> top[i].hex, frequency |-> top[i].count, label |-> thresholdLabel(top[i].count)]]

\* lines 454-471 of extractColors: what it returns for the accumulated colorMap
\* (rgb and luminance are functions of hex alone and are left out)
labelColors(colorMap) ==
    LET top == Take(SortByCount(<<>>, colorMap), 8)
    IN  [i \in 1..Len(top) |->
            [hex |-> top[i].hex,
             frequency |-> top[i].count,
             label |-> IF i = 1 THEN "Primary"
                       ELSE IF i = 2 THEN "Secondary"
                       ELSE IF i = 3 THEN "Accent"
                       ELSE thresholdLabel(top[i].count)]]

capFontsSeven(fonts) == Take(fonts, 7)

\* lines 311-322 of extractFonts: what it returns for the accumulated set
\* (category and sample are functions of the name alone and are left out)
capFonts(fonts) == Take(fonts, 6)

(***************************************************************************)
(* URLs.  A parsed URL is its scheme, host and path; href is the record    *)
(* itself and origin is its scheme and host.  An attribute that holds a    *)
(* URL is absent ("missing"), the empty string ("empty"), text that        *)
(* new URL() rejects ("bad", such as "http://"), an absolute URL ("abs")   *)
(* or a root-relative path ("rel").                                        *)
(***************************************************************************)
Host(www, name) == [www |-> www, name |-> name]
Url(scheme, host, path) == [scheme |-> scheme, host |-> host, path |-> path]

NoHost == Host(FALSE, "")
Missing == [form |-> "missing", scheme |-> "", host |-> NoHost, path |-> ""]
Empty == [form |-> "empty", scheme |-> "", host |-> NoHost, path |-> ""]
Bad == [form |-> "bad", scheme |-> "", host |-> NoHost, path |-> ""]
Abs(u) == [form |-> "abs", scheme |-> u.scheme, host |-> u.host, path |-> u.path]
Rel(path) == [form |-> "rel", scheme |-> "", host |-> NoHost, path |-> path]

\* a || b on attribute values: '' and undefined are falsy
Falsy(a) == a.form \in {"missing", "empty"}
OrElse(a, b) == IF Falsy(a) THEN b ELSE a

\* $(sel).attr(name), $(sel).first().attr(name): the attribute of the first
\* element selected, undefined when nothing is selected
FirstAttr(attrs) == IF attrs = <<>> THEN Missing ELSE Head(attrs)

resolveUrl(base, relative) ==
    IF Falsy(relative) THEN Null
    ELSE IF relative.form = "bad" THEN Null
    ELSE IF relative.form = "abs" THEN Some(Url(relative.scheme, relative.host, relative.path))
    ELSE Some(Url(base.scheme, base.host, relative.path))

\* The user's input: the text before "://" if the input starts with http:// or
\* https:// ("" otherwise), then host and path as new URL() would split them;
\* a host of "" stands for text new URL() rejects.  href has path "/" for "".
RawUrl(scheme, host, path) == [given |-> TRUE, scheme |-> scheme, host |-> host, path |-> path]
NoRawUrl == [given |-> FALSE, scheme |-> "", host |-> NoHost, path |-> ""]

\* Null stands for the throw of 'Invalid URL'
normalizeUrl(inputUrl) ==
    LET scheme == IF inputUrl.scheme \in {"http", "https"} THEN inputUrl.scheme ELSE "https"
    IN  IF inputUrl.host.name = "" THEN Null
        ELSE Some(Url(scheme, inputUrl.host, IF inputUrl.path = "" THEN "/" ELSE inputUrl.path))

(***************************************************************************)
(* Logo.                                                                   *)
(***************************************************************************)
Candidate(url, source, priority) == [url |-> url, source |-> source, priority |-> priority]

\* candidates.push for each element of an .each() loop that passes its test
RECURSIVE LinkCandidates(_, _, _, _)
LinkCandidates(base, hrefs, source, priority) ==
    IF hrefs = <<>> THEN <<>>
    ELSE (IF ~Falsy(Head(hrefs))
          THEN <<Candidate(resolveUrl(base, Head(hrefs)), source, priority)>> ELSE <<>>)
         \o LinkCandidates(base, Tail(hrefs), source, priority)

\* an img element: its src attribute, whether src matches /logo/i, and whether
\* alt, class or id, lowercased, matches /logo/
Img(src, srcLogo, attrLogo) == [src |-> src, srcLogo |-> srcLogo, attrLogo |-> attrLogo]

RECURSIVE ImgCandidates(_, _)
ImgCandidates(base, imgs) ==
    IF imgs = <<>> THEN <<>>
    ELSE LET el == Head(imgs)
             isLogo == (el.srcLogo /\ ~Falsy(el.src)) \/ el.attrLogo
         IN  (IF isLogo /\ ~Falsy(el.src)
              THEN <<Candidate(resolveUrl(base, el.src), "img[logo]", 4)>> ELSE <<>>)
             \o ImgCandidates(base, Tail(imgs))

\* an svg element: whether its class, lowercased, matches /logo/
RECURSIVE SvgCandidates(_)
SvgCandidates(svgs) ==
    IF svgs = <<>> THEN <<>>
    ELSE (IF Head(svgs) THEN <<Candidate(Null, "inline-svg", 5)>> ELSE <<>>)
         \o SvgCandidates(Tail(svgs))

\* the sort with its comparison turned around: (a, b) => b.priority - a.priority
RECURSIVE InsertByPriorityDown(_, _)
InsertByPriorityDown(sorted, c) ==
    IF sorted = <<>> THEN <<c>>
    ELSE IF Head(sorted).priority >= c.priority
         THEN <<Head(sorted)>> \o InsertByPriorityDown(Tail(sorted), c)
    ELSE <<c>> \o sorted

\* candidates.sort((a, b) => a.priority - b.priority): a stable sort
RECURSIVE InsertByPriority(_, _)
InsertByPriority(sorted, c) ==
    IF sorted = <<>> THEN <<c>>
    ELSE IF Head(sorted).priority <= c.priority
         THEN <<Head(sorted)>> \o InsertByPriority(Tail(sorted), c)
    ELSE <<c>> \o sorted

RECURSIVE SortByPriority(_, _)
SortByPriority(sorted, cs) ==
    IF cs = <<>> THEN sorted ELSE SortByPriority(InsertByPriority(sorted, Head(cs)), Tail(cs))

\* the first candidate, whatever its url
FindFirst(cs) == IF cs = <<>> THEN Null ELSE Some(Head(cs))

\* candidates.find((c) => c.url), then best || null
RECURSIVE FindWithUrl(_)
FindWithUrl(cs) ==
    IF cs = <<>> THEN Null
    ELSE IF Head(cs).url # Null THEN Some(Head(cs)) ELSE FindWithUrl(Tail(cs))

logoCandidates(doc, baseUrl) ==
    LET ogImg == FirstAttr(doc.ogImage)
        twitterImg == FirstAttr(doc.twitterImage)
        favicon == OrElse(FirstAttr(doc.icons), FirstAttr(doc.shortcutIcons))
    IN  (IF ~Falsy(ogImg) THEN <<Candidate(resolveUrl(baseUrl, ogImg), "og:image", 1)>> ELSE <<>>)
        \o (IF ~Falsy(twitterImg)
            THEN <<Candidate(resolveUrl(baseUrl, twitterImg), "twitter:image", 2)>> ELSE <<>>)
        \o LinkCandidates(baseUrl, doc.appleTouchIcons, "apple-touch-icon", 3)
        \o ImgCandidates(baseUrl, doc.imgs)
        \o SvgCandidates(doc.svgs)
        \o (IF ~Falsy(favicon)
            THEN <<Candidate(resolveUrl(baseUrl, favicon), "favicon", 6)>> ELSE <<>>)
        \o <<Candidate(Some(Url(baseUrl.scheme, baseUrl.host, "/favicon.ico")),
                       "favicon-fallback", 7)>>

extractLogo(doc, baseUrl) == FindWithUrl(SortByPriority(<<>>, logoCandidates(doc, baseUrl)))

(***************************************************************************)
(* Text of the page.  A string is known by where it came from (id), its    *)
(* length, and the index of its first period (its length when it has       *)
(* none); part tells the whole string from its piece before the period.    *)
(* All empty strings are the one EmptyText, as '' === ''.  An absent       *)
(* attribute or an empty selection reads as EmptyText too: the code turns  *)
(* both into '' (|| '', .text()) before it looks at them.                  *)
(***************************************************************************)
EmptyText == [id |-> "", part |-> "all", length |-> 0, dot |-> 0]
Text(id, length, dot) ==
    IF length = 0 THEN EmptyText ELSE [id |-> id, part |-> "all", length |-> length, dot |-> dot]

\* str.split('.')[0]
split0(str) ==
    IF str.dot = str.length THEN str
    ELSE IF str.dot = 0 THEN EmptyText
    ELSE [id |-> str.id, part |-> "head", length |-> str.dot, dot |-> str.dot]

\* a || b on strings
TextOr(a, b) == IF a.length = 0 THEN b ELSE a

extractMeta(doc, targetUrl) ==
    [title |-> TextOr(doc.ogTitle, doc.title),
     description |-> TextOr(doc.metaDescription, TextOr(doc.ogDescription, doc.twitterDescription)),
     \* og:site_name, else the hostname without a leading "www."
     siteName |-> IF doc.ogSiteName.length > 0 THEN [meta |-> TRUE, name |-> doc.ogSiteName.id]
                  ELSE [meta |-> FALSE, name |-> targetUrl.host.name]]

\* the selectors of heroSelectors, in order; doc.hero[i] is
\* $(heroSelectors[i]).first().text().trim()
heroSelectors ==
    <<"[class*=tagline]", "[class*=slogan]", "[class*=hero] h1", "[class*=hero] h2",
      "[class*=headline]", "header h1", "header h2", ".hero h1", ".hero h2", "#hero h1",
      "#hero h2">>

heroOkWide(text) == text.length > 0 /\ text.length >= 4 /\ text.length <= 200

heroOk(text) == text.length > 0 /\ text.length > 4 /\ text.length < 200

RECURSIVE FirstHero(_, _)
FirstHero(doc, i) ==
    IF i > Len(heroSelectors) THEN EmptyText
    ELSE IF heroOk(doc.hero[i]) THEN doc.hero[i]
    ELSE FirstHero(doc, i + 1)

extractTagline(doc, description) ==
    LET og == doc.ogDescription
        twitter == doc.twitterDescription
        hero == FirstHero(doc, 1)
        h1 == doc.h1
    IN  IF hero.length > 0 THEN hero
        ELSE IF og.length > 0 /\ og.length < 120 THEN og
        ELSE IF twitter.length > 0 /\ twitter.length < 120 THEN twitter
        ELSE IF h1.length > 0 /\ h1.length < 150 THEN h1
        ELSE split0(description)

\* line 512: tagline || meta.description?.split('.')[0] || ''
resultTagline(doc, description) == TextOr(extractTagline(doc, description), split0(description))

(***************************************************************************)
(* Pages.  A parsed page (the $ of the handler) is a record of what the    *)
(* selectors of the code select in it.  A stylesheet link carries its href *)
(* and the CSS text its server sends for it.                               *)
(***************************************************************************)
Link(href, css) == [href |-> href, css |-> css]

BlankDoc ==
    [googleFonts |-> <<>>, styles |-> <<>>, links |-> <<>>,
     ogImage |-> <<>>, twitterImage |-> <<>>, appleTouchIcons |-> <<>>, imgs |-> <<>>,
     svgs |-> <<>>, icons |-> <<>>, shortcutIcons |-> <<>>,
     ogTitle |-> EmptyText, title |-> EmptyText, ogSiteName |-> EmptyText,
     metaDescription |-> EmptyText, ogDescription |-> EmptyText,
     twitterDescription |-> EmptyText, h1 |-> EmptyText,
     hero |-> [i \in 1..Len(heroSelectors) |-> EmptyText]]

ATest == Host(FALSE, "a.test")
BTest == Host(TRUE, "b.test")
Cdn == Url("https", Host(FALSE, "cdn.test"), "/logo.png")

Red == Hex(<<"F", "F", "0", "0", "0", "0">>)
White == Hex(<<"F", "F", "F", "F", "F", "F">>)
Green3 == Hex(<<"0", "a", "0">>)
Blue8 == Hex(<<"3", "3", "6", "6", "9", "9", "c", "c">>)
Hex4 == Hex(<<"a", "b", "c", "d">>)
Orange == Hex(<<"f", "f", "a", "a", "0", "0">>)
Navy == Hex(<<"1", "2", "3", "4", "5", "6">>)
Brown == Hex(<<"6", "5", "4", "3", "2", "1">>)
Sky == Hex(<<"A", "B", "C", "D", "E", "F">>)
Teal == Hex(<<"0", "8", "8">>)

\* :root{--brand-color:#FF0000;} a{color:#FFFFFF;}
ExampleCss == <<BrandVar(Red), ColorProp(White)>>

\* served at https://a.test/
PageA ==
    [BlankDoc EXCEPT
        !.googleFonts = <<<<"Roboto">>>>,
        !.styles = <<ExampleCss \o <<FontFamily(<<"Inter", "sans-serif">>)>>>>,
        !.links = <<Link(Rel("/main.css"),
                         <<FontFamily(<<"Lora", "Roboto">>), ColorProp(Red), BrandVar(Green3)>>)>>,
        !.ogImage = <<Abs(Cdn)>>,
        !.title = Text("title", 12, 12),
        !.metaDescription = Text("description", 40, 18),
        !.hero = [i \in 1..Len(heroSelectors) |-> IF i = 3 THEN Text("hero h1", 12, 12) ELSE EmptyText]]

\* served at https://www.b.test/
PageB ==
    [BlankDoc EXCEPT
        !.title = Text("title b", 7, 7),
        !.svgs = <<TRUE>>,
        !.h1 = Text("h1 b", 20, 20)]

\* many fonts: five names from the Google Fonts link and the style blocks, and
\* four stylesheet links, one of them with an href that does not resolve
PageFonts ==
    [BlankDoc EXCEPT
        !.googleFonts = <<<<"Roboto", "Open Sans">>>>,
        !.styles = <<ExampleCss \o <<FontFamily(<<"Inter", "Roboto", "sans-serif">>)>>,
                     <<FontFace("Lora"), FontVar("Fira Code"), FontFamily(<<"X", "Serif">>)>>>>,
        !.links = <<Link(Rel("/1.css"), <<FontFamily(<<"Georgia", "Roboto", "serif">>),
                                          ColorProp(Rgb(230, 230, 230)), BrandVar(Rgb(231, 231, 231))>>),
                    Link(Bad, <<FontFamily(<<"Futura">>), BrandVar(Navy)>>),
                    Link(Rel("/2.css"), <<FontFamily(<<"Arial">>), FontVar("Georgia"),
                                          ColorProp(Rgb(25, 25, 25)), ColorProp(Rgb(24, 25, 25))>>),
                    Link(Abs(Url("https", Host(FALSE, "cdn.test"), "/3.css")),
                         <<FontFace("Helvetica"), ColorProp(Hsl(0, 100, 50)), ColorProp(Hex4),
                           PlainVar(Navy), ColorProp(Unparsed)>>),
                    Link(Rel("/4.css"), <<FontFamily(<<"Futura">>), BrandVar(Brown)>>)>>,
        !.title = Text("fonts", 5, 5)]

\* many colours: ten distinct ones over a style block and three stylesheets,
\* several with equal weight, and a fourth stylesheet that is never fetched
PageColors ==
    [BlankDoc EXCEPT
        !.styles = <<<<BrandVar(Red), BrandVar(Red), BrandVar(Green3), ColorProp(Blue8),
                       ColorProp(White), PlainVar(Teal), FontFamily(<<"Inter">>)>>>>,
        !.links = <<Link(Rel("/1.css"), <<BrandVar(Red), BrandVar(Orange), BrandVar(Orange),
                                          ColorProp(Navy), ColorProp(Brown),
                                          ColorProp(Hsl(240, 100, 50))>>),
                    Link(Rel("/2.css"), <<BrandVar(Green3), BrandVar(Navy), ColorProp(Sky),
                                          ColorProp(Sky), ColorProp(Sky),
                                          ColorProp(Rgb(0, 0, 255))>>),
                    Link(Rel("/3.css"), <<ColorProp(Teal), ColorProp(Rgb(230, 230, 230)),
                                          BrandVar(Blue8), BrandVar(Blue8), ColorProp(Brown),
                                          ColorProp(Rgb(10, 10, 10))>>),
                    Link(Rel("/4.css"), <<BrandVar(Rgb(200, 100, 50))>>)>>,
        !.ogDescription = Text("og:description", 30, 30)]

\* few fonts and colours, over a style block and two stylesheets
PageTwoSheets ==
    [BlankDoc EXCEPT
        !.googleFonts = <<<<"Roboto">>>>,
        !.styles = <<ExampleCss \o <<FontFamily(<<"Inter", "monospace">>)>>>>,
        !.links = <<Link(Rel("/1.css"), <<FontFamily(<<"Lora", "Roboto">>), ColorProp(Red),
                                          BrandVar(Green3)>>),
                    Link(Rel("/2.css"), <<FontFace("Arial"), BrandVar(Navy), ColorProp(Navy),
                                          ColorProp(Green3)>>)>>,
        !.twitterDescription = Text("twitter:description", 119, 119)]

Pages == <<PageA, PageB, PageFonts, PageColors, PageTwoSheets>>

\* what the user may send: a.test, https://a.test/, www.b.test, nothing, and
\* text that is no URL
RawUrls ==
    {RawUrl("", ATest, ""), RawUrl("https", ATest, "/"), RawUrl("", BTest, ""),
     NoRawUrl, RawUrl("", NoHost, "")}

UrlA == Url("https", ATest, "/")
UrlB == Url("https", BTest, "/")
Keys == {UrlA, UrlB}

(***************************************************************************)
(* The cache (NodeCache with stdTTL 300) and the handler's responses.      *)
(***************************************************************************)
stdTTL == 300

\* a stored entry is live while its expiry t is not before the clock
Live(entry, time) == entry # Null /\ ~(entry[1].t < time)

\* cache.get(key): the stored value, or Null (undefined) for none or an expired one
cacheGet(c, key, time) == IF Live(c[key], time) THEN Some(c[key][1].v) ELSE Null

\* the cache after cache.get(key): an expired entry is deleted by the lookup
cacheAfterGet(c, key, time) == IF Live(c[key], time) THEN c ELSE [c EXCEPT ![key] = Null]

\* cache.set(key, value) with the lifetime left out
cacheSetNoTtl(c, key, value, time) == [c EXCEPT ![key] = Some([v |-> value, t |-> time])]

\* cache.set(key, value)
cacheSet(c, key, value, time) == [c EXCEPT ![key] = Some([v |-> value, t |-> time + stdTTL])]

NoUrl == Url("", NoHost, "")
NoResult ==
    [url |-> NoUrl, siteName |-> [meta |-> FALSE, name |-> ""], title |-> EmptyText,
     description |-> EmptyText, tagline |-> EmptyText, logo |-> Null, fonts |-> <<>>,
     colors |-> <<>>, scrapedAt |-> 0]

NoResponse == [status |-> 0, error |-> "", body |-> NoResult, cached |-> FALSE]
ErrorResponse(status, error) == [status |-> status, error |-> error, body |-> NoResult, cached |-> FALSE]

\* What axios.get rejects with.  cause is why the fetch failed; status is
\* err.response?.status (0 for none), code is err.code, and timeoutMsg tells
\* whether err.message includes 'timeout'.
Err(cause, status, code, timeoutMsg) ==
    [cause |-> cause, status |-> status, code |-> code, timeoutMsg |-> timeoutMsg]
NoErr == Err("", 0, "", FALSE)

PageErrors ==
    {Err("http", 401, "ERR_BAD_REQUEST", FALSE), Err("http", 403, "ERR_BAD_REQUEST", FALSE),
     Err("http", 404, "ERR_BAD_REQUEST", FALSE), Err("http", 500, "ERR_BAD_RESPONSE", FALSE),
     Err("dns", 0, "ENOTFOUND", FALSE), Err("dns", 0, "EAI_AGAIN", FALSE),
     Err("connection", 0, "ECONNREFUSED", FALSE), Err("connection", 0, "ECONNRESET", FALSE),
     Err("connection", 0, "EHOSTUNREACH", FALSE),
     \* 'timeout of 12000ms exceeded'
     Err("timeout", 0, "ECONNABORTED", TRUE), Err("timeout", 0, "ETIMEDOUT", FALSE),
     Err("redirects", 0, "ERR_FR_TOO_MANY_REDIRECTS", FALSE)}

SomeErrors == {e \in PageErrors : e.code \in {"ERR_BAD_RESPONSE", "ECONNABORTED"}}

\* the catch block of the handler
errorResponse(err) ==
    IF err.status = 403 \/ err.status = 401 THEN ErrorResponse(403, "AccessBlocked")
    ELSE IF err.code = "ECONNREFUSED" \/ err.code = "ENOTFOUND" THEN ErrorResponse(404, "HostUnreachable")
    ELSE IF err.code = "ETIMEDOUT" \/ err.timeoutMsg THEN ErrorResponse(408, "Timeout")
    ELSE ErrorResponse(500, "FetchFailed")

(***************************************************************************)
(* The handler of POST /api/analyze, one action per stretch of code        *)
(* between two awaits.                                                     *)
(***************************************************************************)
Slots == {1, 2}
\* requests the server takes in one run, and the clock's step and end
MaxRequests == 3
TickStep == 200
MaxTime == 450
\* no page here has more stylesheet links than this
MaxLinks == 5

IdleRq ==
    [targetUrl |-> NoUrl, doc |-> 0,
     fonts |-> <<>>, fontWait |-> {}, colorMap |-> <<>>, colorWait |-> {}]

\* what a run of the handler did and met: the fetches it issued, the stylesheet
\* fetches that succeeded, and the error it caught
IdleHist ==
    [pageFetches |-> 0, cssFetches |-> 0, fontsOk |-> {}, colorsOk |-> {}, err |-> NoErr]

\* cssUrls.filter(Boolean).slice(0, 3): the links fetched, by their place in the page
RECURSIVE Resolvable(_, _, _)
Resolvable(doc, baseUrl, i) ==
    IF i > Len(doc.links) THEN <<>>
    ELSE (IF resolveUrl(baseUrl, doc.links[i].href) # Null THEN <<i>> ELSE <<>>)
         \o Resolvable(doc, baseUrl, i + 1)

cssToFetch(doc, baseUrl) == Take(Resolvable(doc, baseUrl, 1), 3)

\* the fonts Set before the first stylesheet answers: the Google Fonts families,
\* then the names of the style blocks
RECURSIVE InlineFonts(_, _)
InlineFonts(fonts, styles) ==
    IF styles = <<>> THEN fonts
    ELSE InlineFonts(SetAddAll(fonts, extractFontsFromCSS(Head(styles))), Tail(styles))

\* the colorMap before the first stylesheet answers
RECURSIVE InlineColors(_, _)
InlineColors(colorMap, styles) ==
    IF styles = <<>> THEN colorMap
    ELSE InlineColors(MapMerge(colorMap, extractColorsFromCSS(Head(styles))), Tail(styles))

\* lines 502-517
assemble(doc, targetUrl, fonts, colors, time) ==
    LET meta == extractMeta(doc, targetUrl)
    IN  [url |-> targetUrl,
         siteName |-> meta.siteName,
         title |-> meta.title,
         description |-> TextOr(meta.description, Text("No description found.", 21, 20)),
         tagline |-> resultTagline(doc, meta.description),
         logo |-> extractLogo(doc, targetUrl),
         fonts |-> IF Len(fonts) > 0 THEN fonts ELSE <<"System Default">>,
         colors |-> colors,
         scrapedAt |-> time]

\* lines 476-493: validation, the cache lookup, and the page fetch going out.
\* The request takes the first free slot.
Receive(r, raw) ==
    /\ pc[r] = "idle"
    /\ \A q \in Slots : q < r => pc[q] # "idle"
    /\ started' = started + 1
    /\ LET target == IF raw.given THEN normalizeUrl(raw) ELSE Null
           cached == IF target = Null THEN Null ELSE cacheGet(cache, target[1], now)
           h == IdleHist
       IN  IF ~raw.given THEN
               /\ response' = [response EXCEPT ![r] = ErrorResponse(400, "URLRequired")]
               /\ pc' = [pc EXCEPT ![r] = "done"]
               /\ rq' = [rq EXCEPT ![r] = IdleRq]
               /\ hist' = [hist EXCEPT ![r] = h]
               /\ cache' = cache
           ELSE IF target = Null THEN
               /\ response' = [response EXCEPT ![r] = ErrorResponse(400, "InvalidURL")]
               /\ pc' = [pc EXCEPT ![r] = "done"]
               /\ rq' = [rq EXCEPT ![r] = IdleRq]
               /\ hist' = [hist EXCEPT ![r] = h]
               /\ cache' = cache
           ELSE IF cached # Null THEN
               /\ response' = [response EXCEPT ![r] =
                     [status |-> 200, error |-> "", body |-> cached[1], cached |-> TRUE]]
               /\ pc' = [pc EXCEPT ![r] = "done"]
               /\ rq' = [rq EXCEPT ![r] = [IdleRq EXCEPT !.targetUrl = target[1]]]
               /\ hist' = [hist EXCEPT ![r] = h]
               /\ cache' = cache
           ELSE
               /\ response' = [response EXCEPT ![r] = NoResponse]
               /\ pc' = [pc EXCEPT ![r] = "fetchPage"]
               /\ rq' = [rq EXCEPT ![r] = [IdleRq EXCEPT !.targetUrl = target[1]]]
               /\ hist' = [hist EXCEPT ![r] = [h EXCEPT !.pageFetches = 1]]
               /\ cache' = cacheAfterGet(cache, target[1], now)
    /\ UNCHANGED <<now, site, writes, arg, ret>>

\* lines 493-500, with extractFonts and extractColors up to their Promise.all:
\* the page arrives and is parsed, the style blocks are read, and the
\* stylesheet fetches of both extractors go out
PageOk(r) ==
    /\ pc[r] = "fetchPage"
    /\ LET id == site[rq[r].targetUrl]
           doc == Pages[id]
           sheets == Range(cssToFetch(doc, rq[r].targetUrl))
       IN  /\ rq' = [rq EXCEPT ![r] =
                 [@ EXCEPT !.doc = id,
                           !.fonts = InlineFonts(extractGoogleFonts(doc), doc.styles),
                           !.fontWait = sheets,
                           !.colorMap = InlineColors(<<>>, doc.styles),
                           !.colorWait = sheets]]
           /\ hist' = [hist EXCEPT ![r].cssFetches = 2 * Cardinality(sheets)]
    /\ pc' = [pc EXCEPT ![r] = "extract"]
    /\ UNCHANGED <<now, cache, site, response, writes, started, arg, ret>>

\* as PageFail, but the catch block stores what it has under the URL
PageFailStores(r, err) ==
    /\ pc[r] = "fetchPage"
    /\ response' = [response EXCEPT ![r] = errorResponse(err)]
    /\ hist' = [hist EXCEPT ![r].err = err]
    /\ pc' = [pc EXCEPT ![r] = "done"]
    /\ cache' = cacheSet(cache, rq[r].targetUrl, NoResult, now)
    /\ UNCHANGED <<now, site, rq, writes, started, arg, ret>>

\* lines 521-534: the page fetch fails
PageFail(r, err) ==
    /\ pc[r] = "fetchPage"
    /\ response' = [response EXCEPT ![r] = errorResponse(err)]
    /\ hist' = [hist EXCEPT ![r].err = err]
    /\ pc' = [pc EXCEPT ![r] = "done"]
    /\ UNCHANGED <<now, cache, site, rq, writes, started, arg, ret>>

\* fetchCSS: the text the server sends or, on any failure, ''
fetchCSS(link, ok) == IF ok THEN link.css ELSE <<>>

\* as FontCss, but a failed stylesheet fetch rejects and reaches the catch block
FontCssThrows(r, i, ok) ==
    /\ pc[r] = "extract"
    /\ i \in rq[r].fontWait
    /\ IF ok
       THEN /\ rq' = [rq EXCEPT ![r] =
                  [@ EXCEPT !.fonts = SetAddAll(@, extractFontsFromCSS(Pages[rq[r].doc].links[i].css)),
                            !.fontWait = @ \ {i}]]
            /\ hist' = [hist EXCEPT ![r].fontsOk = @ \cup {i}]
            /\ UNCHANGED <<pc, response>>
       ELSE /\ response' = [response EXCEPT ![r] = ErrorResponse(500, "FetchFailed")]
            /\ pc' = [pc EXCEPT ![r] = "done"]
            /\ UNCHANGED <<rq, hist>>
    /\ UNCHANGED <<now, cache, site, writes, started, arg, ret>>

\* lines 304-307 with fetchCSS: a stylesheet fetch of extractFonts ends
FontCss(r, i, ok) ==
    /\ pc[r] = "extract"
    /\ i \in rq[r].fontWait
    /\ LET text == fetchCSS(Pages[rq[r].doc].links[i], ok)
       IN  rq' = [rq EXCEPT ![r] =
                 [@ EXCEPT !.fonts = SetAddAll(@, extractFontsFromCSS(text)),
                           !.fontWait = @ \ {i}]]
    /\ hist' = [hist EXCEPT ![r].fontsOk = IF ok THEN @ \cup {i} ELSE @]
    /\ UNCHANGED <<now, cache, site, pc, response, writes, started, arg, ret>>

\* lines 447-451 with fetchCSS: a stylesheet fetch of extractColors ends
ColorCss(r, i, ok) ==
    /\ pc[r] = "extract"
    /\ i \in rq[r].colorWait
    /\ LET text == fetchCSS(Pages[rq[r].doc].links[i], ok)
       IN  rq' = [rq EXCEPT ![r] =
                 [@ EXCEPT !.colorMap = MapMerge(@, extractColorsFromCSS(text)),
                           !.colorWait = @ \ {i}]]
    /\ hist' = [hist EXCEPT ![r].colorsOk = IF ok THEN @ \cup {i} ELSE @]
    /\ UNCHANGED <<now, cache, site, pc, response, writes, started, arg, ret>>

\* lines 310-322, 454-471 and 502-520: both Promise.all have resolved; the
\* lists are cut and labelled, the record is assembled, cached and sent
Finish(r) ==
    /\ pc[r] = "extract"
    /\ rq[r].fontWait = {}
    /\ rq[r].colorWait = {}
    /\ LET result == assemble(Pages[rq[r].doc], rq[r].targetUrl, capFonts(rq[r].fonts),
                              labelColors(rq[r].colorMap), now)
       IN  /\ cache' = cacheSet(cache, rq[r].targetUrl, result, now)
           /\ writes' = Append(writes, [key |-> rq[r].targetUrl, v |-> result, t |-> now + stdTTL])
           /\ response' = [response EXCEPT ![r] =
                 [status |-> 200, error |-> "", body |-> result, cached |-> FALSE]]
    /\ pc' = [pc EXCEPT ![r] = "done"]
    /\ UNCHANGED <<now, site, rq, hist, started, arg, ret>>

\* a finished exchange leaves; its slot takes the next request
Reset(r) ==
    /\ pc[r] = "done"
    /\ pc' = [pc EXCEPT ![r] = "idle"]
    /\ rq' = [rq EXCEPT ![r] = IdleRq]
    /\ response' = [response EXCEPT ![r] = NoResponse]
    /\ hist' = [hist EXCEPT ![r] = IdleHist]
    /\ UNCHANGED <<now, cache, site, writes, started, arg, ret>>

\* time passes
Tick ==
    /\ now + TickStep <= MaxTime
    /\ now' = now + TickStep
    /\ UNCHANGED <<cache, site, pc, rq, response, hist, writes, started, arg, ret>>

server == <<now, cache, site, pc, rq, response, hist, writes, started>>

NoRequests ==
    /\ now = 0
    /\ cache = [k \in Keys |-> Null]
    /\ pc = [r \in Slots |-> "idle"]
    /\ rq = [r \in Slots |-> IdleRq]
    /\ response = [r \in Slots |-> NoResponse]
    /\ hist = [r \in Slots |-> IdleHist]
    /\ writes = <<>>
    /\ started = 0

(***************************************************************************)
(* Spec: the server taking requests for two small sites.                   *)
(***************************************************************************)
Init ==
    /\ NoRequests
    /\ site = [k \in Keys |-> IF k = UrlA THEN 1 ELSE 2]
    /\ arg = <<>>
    /\ ret = <<>>

Next ==
    \/ \E r \in Slots :
        \/ started < MaxRequests /\ \E raw \in RawUrls : Receive(r, raw)
        \/ PageOk(r)
        \/ \E err \in SomeErrors : PageFail(r, err)
        \/ \E i \in 1..MaxLinks, ok \in BOOLEAN : FontCss(r, i, ok)
        \/ \E i \in 1..MaxLinks, ok \in BOOLEAN : ColorCss(r, i, ok)
        \/ Finish(r)
        \/ started < MaxRequests /\ Reset(r)
    \/ Tick

Spec == Init /\ [][Next]_vars

(***************************************************************************)
(* SpecExtract: one analysis of a page with many fonts, colours and        *)
(* stylesheets, every stylesheet fetch ending well or badly, in any order. *)
(***************************************************************************)
RichPages == {3, 4, 5}

InitExtract ==
    /\ NoRequests
    /\ site \in {[k \in Keys |-> p] : p \in RichPages}
    /\ arg = <<>>
    /\ ret = <<>>

NextExtract ==
    \E r \in {1} :
        \/ started = 0 /\ \E raw \in RawUrls : Receive(r, raw)
        \/ PageOk(r)
        \/ \E err \in PageErrors : PageFail(r, err)
        \/ \E i \in 1..MaxLinks, ok \in BOOLEAN : FontCss(r, i, ok)
        \/ \E i \in 1..MaxLinks, ok \in BOOLEAN : ColorCss(r, i, ok)
        \/ Finish(r)

SpecExtract == InitExtract /\ [][NextExtract]_vars

(***************************************************************************)
(* Properties of the server (Spec).                                        *)
(***************************************************************************)
\* a step in which slot r takes a request
Received(r) == pc[r] = "idle" /\ pc'[r] # "idle"

\* the request that slot r takes in this step is answered from the cache, with
\* record v, and sends nothing over the network
HitWith(r, v) ==
    /\ pc'[r] = "done"
    /\ response'[r].status = 200
    /\ response'[r].cached
    /\ response'[r].body = v
    /\ hist'[r].pageFetches = 0
    /\ hist'[r].cssFetches = 0

\* the writes for key k among the first n
WritesFor(k) == {i \in 1..Len(writes) : writes[i].key = k}
IsLastWrite(i) == \A j \in WritesFor(writes[i].key) : j <= i

\* C1 as stated: once a record is written for a URL, every later request for
\* that URL that arrives before the record's expiry is answered with that very
\* record, as a cache hit, without a page fetch or a stylesheet fetch.
C1_EveryWrittenRecordIsServed ==
    [][\A r \in Slots : \A i \in 1..Len(writes) :
          (Received(r) /\ rq'[r].targetUrl = writes[i].key /\ ~(writes[i].t < now))
              => HitWith(r, writes[i].v)]_vars

\* C1, amended: once a record is written for a URL, every later request for
\* that URL that arrives before the expiry of the latest record written for it
\* is answered with that latest record (timestamp included), as a cache hit,
\* without a page fetch or a stylesheet fetch.
C1_LatestRecordIsServed ==
    [][\A r \in Slots : \A i \in 1..Len(writes) :
          (Received(r) /\ rq'[r].targetUrl = writes[i].key /\ IsLastWrite(i)
                /\ ~(writes[i].t < now))
              => HitWith(r, writes[i].v)]_vars

\* a request was answered from the cache at a later time than the record was
\* made, after two analyses of its URL had each written a record
C1_Witness ==
    \E r \in Slots :
        /\ pc[r] = "done"
        /\ response[r].cached
        /\ Cardinality(WritesFor(rq[r].targetUrl)) = 2
        /\ response[r].body = writes[Len(writes)].v
        /\ response[r].body.scrapedAt < now
        /\ hist[r].pageFetches = 0

(***************************************************************************)
(* Properties of one analysis (SpecExtract).                               *)
(***************************************************************************)
\* slot r ran the extraction to its end: the page arrived and the response is out
Analysed(r) == pc[r] = "done" /\ rq[r].doc # 0

DocOf(r) == Pages[rq[r].doc]

\* the CSS texts that reached an extractor: the style blocks of the page, and
\* the stylesheets whose fetch (a set of link places) succeeded
SourcesOf(doc, base, fetched) ==
    doc.styles \o [n \in 1..Len(cssToFetch(doc, base)) |->
                      IF cssToFetch(doc, base)[n] \in fetched
                      THEN doc.links[cssToFetch(doc, base)[n]].css ELSE <<>>]

\* the font names derived from the Google Fonts links and from the sources
DerivedFonts(doc, base, fetched) ==
    Range(extractGoogleFonts(doc))
        \cup UNION {Range(extractFontsFromCSS(css)) : css \in Range(SourcesOf(doc, base, fetched))}

\* the colours derived from the sources
DerivedColors(doc, base, fetched) ==
    UNION {{e.hex : e \in Range(extractColorsFromCSS(css))} :
              css \in Range(SourcesOf(doc, base, fetched))}

ResultFonts(r) == Range(response[r].body.fonts)
ResultColors(r) == {c.hex : c \in Range(response[r].body.colors)}

\* only the validation of the input and the page fetch fail a request
OnlyPageFetchFails ==
    \A r \in Slots :
        (pc[r] = "done" /\ response[r].status # 200)
            => (response[r].status = 400 \/ (rq[r].doc = 0 /\ hist[r].err # NoErr))

\* C2 as stated: whichever stylesheet fetches fail and in whatever order they
\* end, the analysis returns a result, whose fonts and colours include all that
\* is derived from the style blocks and from every stylesheet fetched with
\* success; only the page fetch can fail the analysis.
C2_AllDerivedInResult ==
    /\ OnlyPageFetchFails
    /\ \A r \in Slots : Analysed(r) =>
          /\ response[r].status = 200
          /\ DerivedFonts(DocOf(r), rq[r].targetUrl, hist[r].fontsOk) \subseteq ResultFonts(r)
          /\ DerivedColors(DocOf(r), rq[r].targetUrl, hist[r].colorsOk) \subseteq ResultColors(r)

\* C2, amended: whichever stylesheet fetches fail and in whatever order they
\* end, the analysis returns a result; a font derived from the Google Fonts
\* links, the style blocks or a stylesheet fetched with success is missing from
\* it only if the list holds 6 fonts, and such a colour only if the list holds
\* 8 colours; only the page fetch can fail the analysis.
C2_DerivedInResultUpToCaps ==
    /\ OnlyPageFetchFails
    /\ \A r \in Slots : Analysed(r) =>
          /\ response[r].status = 200
          /\ (Len(response[r].body.fonts) = 6
                \/ DerivedFonts(DocOf(r), rq[r].targetUrl, hist[r].fontsOk) \subseteq ResultFonts(r))
          /\ (Len(response[r].body.colors) = 8
                \/ DerivedColors(DocOf(r), rq[r].targetUrl, hist[r].colorsOk) \subseteq ResultColors(r))

\* an analysis ended with a result although a stylesheet fetch of each extractor
\* failed, and a font and a colour of stylesheets that did arrive are in it
C2_Witness ==
    \E r \in Slots :
        /\ Analysed(r)
        /\ response[r].status = 200
        /\ hist[r].fontsOk # {} /\ hist[r].fontsOk # Range(cssToFetch(DocOf(r), rq[r].targetUrl))
        /\ hist[r].colorsOk # {} /\ hist[r].colorsOk # Range(cssToFetch(DocOf(r), rq[r].targetUrl))
        /\ Len(response[r].body.fonts) < 6
        /\ Len(response[r].body.colors) < 8
        /\ ResultFonts(r) \ DerivedFonts(DocOf(r), rq[r].targetUrl, {}) # {}
        /\ ResultColors(r) \ DerivedColors(DocOf(r), rq[r].targetUrl, {}) # {}

\* where a name was first found: 0 in a Google Fonts link, 1 in a style block,
\* 2 in a stylesheet
FontClass(doc, name) ==
    IF name \in Range(extractGoogleFonts(doc)) THEN 0
    ELSE IF name \in Range(InlineFonts(<<>>, doc.styles)) THEN 1
    ELSE 2

\* C7: in whatever order the stylesheet fetches end, extractFonts returns at
\* most 6 names, no two equal, Google Fonts names before style-block names
\* before stylesheet names; a name is left out only if no name found later
\* than it is kept.
C7_FontsCappedInDiscoveryOrder ==
    \A r \in Slots : Analysed(r) =>
        LET doc == DocOf(r)
            found == DerivedFonts(doc, rq[r].targetUrl, hist[r].fontsOk)
            list == IF found = {} THEN <<>> ELSE response[r].body.fonts
        IN  /\ found = {} => response[r].body.fonts = <<"System Default">>
            /\ Len(list) <= 6
            /\ \A i, j \in 1..Len(list) : i # j => list[i] # list[j]
            /\ Range(list) \subseteq found
            /\ Len(list) = Min(6, Cardinality(found))
            /\ \A i, j \in 1..Len(list) : i < j => FontClass(doc, list[i]) <= FontClass(doc, list[j])
            /\ \A n \in found \ Range(list) :
                  \A m \in Range(list) : FontClass(doc, m) <= FontClass(doc, n)

\* six names are returned, the last of them from a stylesheet, and a name of
\* another stylesheet that arrived is cut
C7_Witness ==
    \E r \in Slots :
        /\ Analysed(r)
        /\ Len(response[r].body.fonts) = 6
        /\ FontClass(DocOf(r), response[r].body.fonts[6]) = 2
        /\ FontClass(DocOf(r), response[r].body.fonts[5]) = 1
        /\ FontClass(DocOf(r), response[r].body.fonts[1]) = 0
        /\ DerivedFonts(DocOf(r), rq[r].targetUrl, hist[r].fontsOk) \ ResultFonts(r) # {}
        /\ response[r].body.fonts[6] = "Arial"

\* the channels of a well-formed hex colour, read digit by digit
ChannelSum(hex) ==
    16 * (HexVal(hex[2]) + HexVal(hex[4]) + HexVal(hex[6]))
        + HexVal(hex[3]) + HexVal(hex[5]) + HexVal(hex[7])

\* the occurrences of hex in a CSS text among the declarations of a kind
RECURSIVE Occurrences(_, _, _)
Occurrences(css, kind, hex) ==
    IF css = <<>> THEN 0
    ELSE (IF Head(css).kind = kind /\ normalizeColor(Head(css).color) = hex THEN 1 ELSE 0)
         + Occurrences(Tail(css), kind, hex)

RECURSIVE WeightIn(_, _)
WeightIn(sources, hex) ==
    IF sources = <<>> THEN 0
    ELSE 3 * Occurrences(Head(sources), "brandvar", hex)
         + Occurrences(Head(sources), "colorprop", hex) + WeightIn(Tail(sources), hex)

\* every colour value of a page, normalized
HexesIn(doc) ==
    {normalizeColor(d.color) :
        d \in UNION {Range(css) : css \in Range(doc.styles) \cup {l.css : l \in Range(doc.links)}}}
        \ {Null}

PageHexes == [p \in 1..Len(Pages) |-> HexesIn(Pages[p])]

RedHex == <<"#", "F", "F", "0", "0", "0", "0">>
WhiteHex == <<"#", "F", "F", "F", "F", "F", "F">>

\* C8: at every moment of extractColors, in whatever order the stylesheet
\* fetches end, the frequency of each hex is the sum over the style blocks and
\* the stylesheets fetched so far (of the first 3 only) of 3 per brand custom
\* property and 1 per colour property holding it; a hex of average brightness
\* above 230 or below 25 is not in the map; with the CSS
\* :root{--brand-color:#FF0000;} a{color:#FFFFFF;} in a style block the map
\* holds #FF0000 with at least 3 and does not hold #FFFFFF.
C8_FrequenciesAreSums ==
    \A r \in Slots : rq[r].doc # 0 =>
        LET doc == DocOf(r)
            map == rq[r].colorMap
            sources == SourcesOf(doc, rq[r].targetUrl, hist[r].colorsOk)
        IN  /\ hist[r].colorsOk \subseteq Range(Take(Resolvable(doc, rq[r].targetUrl, 1), 3))
            /\ Cardinality(hist[r].colorsOk) <= 3
            /\ \A i, j \in 1..Len(map) : i # j => map[i].hex # map[j].hex
            /\ \A e \in Range(map) : e.hex \in PageHexes[rq[r].doc]
            /\ \A hex \in PageHexes[rq[r].doc] :
                  IF ChannelSum(hex) > 3 * 230 \/ ChannelSum(hex) < 3 * 25
                  THEN ~MapHas(map, hex)
                  ELSE MapGet(map, hex) = WeightIn(sources, hex)
            /\ (ExampleCss \in {Take(css, 2) : css \in Range(doc.styles)})
                  => (MapGet(map, RedHex) >= 3 /\ ~MapHas(map, WhiteHex))

\* three stylesheets arrived, the second before the first; a colour of the
\* style block and the first stylesheet holds the sum of its weights, a
\* near-black colour is absent and one of brightness 230 is present
C8_Witness ==
    \E r \in Slots :
        /\ Analysed(r)
        /\ Cardinality(hist[r].colorsOk) = 3
        /\ MapGet(rq[r].colorMap, RedHex) = 9
        /\ \E i, j \in 1..Len(rq[r].colorMap) :
              /\ i < j
              /\ rq[r].colorMap[i].hex = <<"#", "A", "B", "C", "D", "E", "F">>
              /\ rq[r].colorMap[j].hex = <<"#", "F", "F", "A", "A", "0", "0">>
        /\ ~MapHas(rq[r].colorMap, <<"#", "0", "A", "0", "A", "0", "A">>)
        /\ MapHas(rq[r].colorMap, <<"#", "E", "6", "E", "6", "E", "6">>)

C3_ClassifiedByPrecedence ==
    \A r \in Slots : (pc[r] = "done" /\ hist[r].err # NoErr) =>
        response[r].error =
            IF hist[r].err.status \in {401, 403} THEN "AccessBlocked"
            ELSE IF hist[r].err.cause \in {"dns", "connection"} THEN "HostUnreachable"
            ELSE IF hist[r].err.cause = "timeout" THEN "Timeout"
            ELSE "FetchFailed"

\* the fonts list when the stylesheets in fetched answer in the order of their
\* links in the page
FontsInLinkOrder(doc, base, fetched) ==
    LET list == capFonts(InlineFonts(extractGoogleFonts(doc), SourcesOf(doc, base, fetched)))
    IN  IF Len(list) > 0 THEN list ELSE <<"System Default">>

\* the colors list when the stylesheets in fetched answer in the order of their
\* links in the page
ColorsInLinkOrder(doc, base, fetched) ==
    labelColors(InlineColors(<<>>, SourcesOf(doc, base, fetched)))

\* C11 as stated: for a fixed page and fixed texts of its stylesheets, the
\* fonts list and the colors list of the result (members, order and labels)
\* are the same for every order in which the stylesheet fetches end; so each
\* list is the one that the order of the links in the page gives.
C11_ListsSameForEveryCompletionOrder ==
    \A r \in Slots : Analysed(r) =>
        /\ response[r].body.fonts = FontsInLinkOrder(DocOf(r), rq[r].targetUrl, hist[r].fontsOk)
        /\ response[r].body.colors = ColorsInLinkOrder(DocOf(r), rq[r].targetUrl, hist[r].colorsOk)

(***************************************************************************)
(* The cache under failing requests and cache hits (Spec).                 *)
(***************************************************************************)
\* what cache.get gives for each key at the given time
Stored(c, time) == [k \in Keys |-> cacheGet(c, k, time)]

\* the step in which slot r answers with an error
ErrorStep(r) == pc[r] # "done" /\ pc'[r] = "done" /\ response'[r].status # 200

\* the step in which slot r answers from the cache
HitStep(r) == Received(r) /\ response'[r].cached

\* the step in which slot r ends an analysis with success
SuccessStep(r) == pc[r] = "extract" /\ pc'[r] = "done" /\ response'[r].status = 200

\* a record with every field filled, as a successful analysis assembles it
Complete(v) ==
    /\ v.url # NoUrl
    /\ v.description # EmptyText
    /\ Len(v.fonts) > 0

\* each entry was written by a successful analysis of its key, and is complete
EntriesAreResults ==
    \A k \in Keys : cache[k] # Null =>
        /\ cache[k][1].v.url = k
        /\ Complete(cache[k][1].v)
        /\ \E i \in WritesFor(k) : writes[i].v = cache[k][1].v /\ writes[i].t = cache[k][1].t

\* what a step may do to the cache: an error answer and a hit leave it as it
\* is, and what it gives out changes only when an analysis ends with success
CacheFrame ==
    /\ \A r \in Slots : ErrorStep(r) => (Stored(cache', now') = Stored(cache, now) /\ writes' = writes)
    /\ \A r \in Slots : HitStep(r) => cache' = cache
    /\ Stored(cache', now) # Stored(cache, now) => \E r \in Slots : SuccessStep(r)

\* C12: a request that ends in an error (no URL, an invalid URL, a failed page
\* fetch) leaves what the cache holds unchanged; in every reachable state each
\* cache entry is a complete successful result stored under the key equal to
\* its own url field; and a cache-hit response does not modify the stored
\* record.
C12_ErrorsAndHitsLeaveCacheAlone == []EntriesAreResults /\ [][CacheFrame]_vars

\* a page fetch has failed for a URL whose record, written by a concurrent
\* analysis, is live in the cache, and the other slot answers from the cache
C12_Witness ==
    \E r, q \in Slots :
        /\ pc[r] = "done" /\ hist[r].err # NoErr
        /\ Live(cache[rq[r].targetUrl], now)
        /\ pc[q] = "done" /\ response[q].cached

(***************************************************************************)
(* Functions applied on their own: arg is drawn from a set of inputs and   *)
(* ret becomes [done |-> TRUE, val |-> the value returned].                *)
(***************************************************************************)
NotCalled == [done |-> FALSE, val |-> <<>>]
Returned(v) == [done |-> TRUE, val |-> v]

Quiet ==
    /\ NoRequests
    /\ site = [k \in Keys |-> 1]

\* normalizeColor ---------------------------------------------------------
HexInputs ==
    {Hex(<<"a", "B", "c">>), Hex(<<"0", "0", "0">>), Hex(<<"1", "2", "3", "4">>),
     Hex(<<"1", "2", "3", "4", "5">>), Hex(<<"f", "f", "a", "a", "0", "0">>),
     Hex(<<"F", "F", "F", "F", "F", "F">>), Hex(<<"1", "2", "3", "4", "5", "6", "7">>),
     Hex(<<"3", "3", "6", "6", "9", "9", "c", "c">>)}
Channels == {0, 9, 255, 256}
Hues == {0, 90, 200, 360}
Percents == {0, 50, 100, 150}

ColorInputs ==
    HexInputs \cup {Unparsed}
        \cup {Rgb(r, g, b) : r \in Channels, g \in Channels, b \in Channels}
        \cup {Hsl(h, sat, l) : h \in Hues, sat \in Percents, l \in Percents}

InitColor == Quiet /\ arg \in ColorInputs /\ ret = NotCalled

NormalizeColorCall ==
    /\ ~ret.done
    /\ ret' = Returned(normalizeColor(arg))
    /\ UNCHANGED <<server, arg>>

SpecColor == InitColor /\ [][NormalizeColorCall]_vars

\* C9: every colour value normalizeColor accepts becomes '#' and exactly six
\* uppercase hexadecimal digits.
C9_SixUppercaseHexDigits ==
    (ret.done /\ ret.val # Null) =>
        /\ Len(ret.val) = 7
        /\ ret.val[1] = "#"
        /\ \A i \in 2..Len(ret.val) : ret.val[i] \in Range(UpperDigits)

\* extractLogo --------------------------------------------------------------
OgImages == {<<>>, <<Abs(Cdn)>>, <<Rel("/og.png")>>, <<Bad>>, <<Empty>>, <<Missing, Abs(Cdn)>>}
TwitterImages == {<<>>, <<Rel("/tw.png")>>, <<Bad>>}
AppleTouchIcons == {<<>>, <<Rel("/a1.png")>>, <<Bad, Rel("/a2.png")>>, <<Empty>>}
ImgLists ==
    {<<>>,
     <<Img(Rel("/logo.png"), TRUE, FALSE)>>,
     <<Img(Rel("/x.png"), FALSE, FALSE), Img(Rel("/brand.png"), FALSE, TRUE),
       Img(Rel("/logo2.png"), TRUE, FALSE)>>,
     <<Img(Missing, FALSE, TRUE)>>,
     <<Img(Bad, FALSE, TRUE)>>}
SvgLists == {<<>>, <<TRUE>>, <<FALSE>>}
IconPairs ==
    {<<<<>>, <<>>>>, <<<<Rel("/i.ico")>>, <<>>>>, <<<<>>, <<Rel("/s.ico")>>>>,
     <<<<Empty>>, <<Abs(Cdn)>>>>, <<<<Bad>>, <<Rel("/s.ico")>>>>}

LogoDocs ==
    {[BlankDoc EXCEPT !.ogImage = og, !.twitterImage = tw, !.appleTouchIcons = at,
                      !.imgs = im, !.svgs = sv, !.icons = ic[1], !.shortcutIcons = ic[2]] :
        og \in OgImages, tw \in TwitterImages, at \in AppleTouchIcons, im \in ImgLists,
        sv \in SvgLists, ic \in IconPairs}

InitLogo ==
    /\ Quiet
    /\ arg \in {[doc |-> d, baseUrl |-> b] : d \in LogoDocs, b \in Keys}
    /\ ret = NotCalled

ExtractLogoCall ==
    /\ ~ret.done
    /\ ret' = Returned(extractLogo(arg.doc, arg.baseUrl))
    /\ UNCHANGED <<server, arg>>

SpecLogo == InitLogo /\ [][ExtractLogoCall]_vars

\* C4 as stated: if an og:image meta with content is on the page, the
\* candidate extractLogo chooses has priority 1, whatever else is on the page
\* and whatever the content is.
C4_OgImagePresentWins ==
    (ret.done /\ \E i \in 1..Len(arg.doc.ogImage) : ~Falsy(arg.doc.ogImage[i]))
        => (ret.val # Null /\ ret.val[1].priority = 1)

\* C4, amended: if the first og:image meta of the page has content that
\* resolves to a URL against the page's URL, the candidate extractLogo chooses
\* is that URL with priority 1 (source og:image), whatever else is on the page.
C4_ResolvableOgImageWins ==
    (ret.done /\ resolveUrl(arg.baseUrl, FirstAttr(arg.doc.ogImage)) # Null)
        => /\ ret.val # Null
           /\ ret.val[1].priority = 1
           /\ ret.val[1].source = "og:image"
           /\ ret.val[1].url = resolveUrl(arg.baseUrl, FirstAttr(arg.doc.ogImage))

\* og:image is chosen on a page that also has a twitter:image, an
\* apple-touch-icon, a logo img, a logo svg and a favicon
C4_Witness ==
    /\ ret.done
    /\ ret.val # Null
    /\ ret.val[1].priority = 1
    /\ arg.doc.ogImage = <<Rel("/og.png")>>
    /\ arg.doc.twitterImage = <<Rel("/tw.png")>>
    /\ arg.doc.appleTouchIcons # <<>>
    /\ Len(arg.doc.imgs) = 3
    /\ arg.doc.svgs = <<TRUE>>
    /\ arg.doc.icons # <<>>

NoLogoSignals(doc) ==
    /\ doc.ogImage = <<>> /\ doc.twitterImage = <<>> /\ doc.appleTouchIcons = <<>>
    /\ doc.imgs = <<>> /\ doc.svgs = <<>> /\ doc.icons = <<>> /\ doc.shortcutIcons = <<>>

\* C5: extractLogo returns the first candidate with a URL, in ascending
\* priority and, among equal priorities, in the order of the page; never a
\* candidate without a URL, and never null; with no logo signal on the page it
\* is the favicon-fallback candidate at <site origin>/favicon.ico.
C5_FirstCandidateWithUrl ==
    ret.done =>
        LET cs == logoCandidates(arg.doc, arg.baseUrl)
        IN  /\ ret.val # Null
            /\ ret.val[1].url # Null
            /\ ret.val[1].source # "inline-svg"
            /\ \E i \in 1..Len(cs) :
                  /\ cs[i] = ret.val[1]
                  /\ \A j \in 1..Len(cs) :
                        cs[j].url # Null =>
                            \/ cs[i].priority < cs[j].priority
                            \/ (cs[i].priority = cs[j].priority /\ i <= j)
            /\ NoLogoSignals(arg.doc) =>
                  ret.val[1] = Candidate(Some(Url(arg.baseUrl.scheme, arg.baseUrl.host, "/favicon.ico")),
                                         "favicon-fallback", 7)

\* the second of two apple-touch-icon links is chosen, past an og:image and a
\* first link that do not resolve, on a page with a logo svg
C5_Witness ==
    /\ ret.done
    /\ arg.doc.ogImage = <<Bad>>
    /\ arg.doc.twitterImage = <<>>
    /\ arg.doc.appleTouchIcons = <<Bad, Rel("/a2.png")>>
    /\ arg.doc.svgs = <<TRUE>>
    /\ Len(arg.doc.imgs) = 3
    /\ ret.val # Null
    /\ ret.val[1].source = "apple-touch-icon"
    /\ ret.val[1].url = Some(Url(arg.baseUrl.scheme, arg.baseUrl.host, "/a2.png"))

\* extractTagline -----------------------------------------------------------
\* the selectors that match something, and the lengths of the texts tried
HeroPlaces == {1, 3, 6, 11}
HeroLengths == {4, 5, 199, 200}

HeroTexts ==
    {[i \in 1..Len(heroSelectors) |-> EmptyText]}
        \cup {[i \in 1..Len(heroSelectors) |->
                  IF i = p THEN Text(heroSelectors[p], n, n) ELSE EmptyText] :
                p \in HeroPlaces, n \in HeroLengths}
        \cup {[i \in 1..Len(heroSelectors) |->
                  IF i = p THEN Text(heroSelectors[p], n, n)
                  ELSE IF i = q THEN Text(heroSelectors[q], m, m) ELSE EmptyText] :
                p \in HeroPlaces, q \in HeroPlaces, n \in HeroLengths, m \in HeroLengths}

TaglineDocs ==
    {[BlankDoc EXCEPT !.hero = hero, !.ogDescription = Text("og:description", og, og),
                      !.twitterDescription = Text("twitter:description", tw, tw),
                      !.h1 = Text("h1", h, h), !.metaDescription = md] :
        hero \in HeroTexts, og \in {0, 119, 120}, tw \in {0, 119, 120}, h \in {0, 149, 150},
        md \in {EmptyText, Text("description", 40, 18), Text("description", 30, 30),
                Text("description", 25, 0)}}

InitTagline == Quiet /\ arg \in TaglineDocs /\ ret = NotCalled

\* lines 502-512: the description of extractMeta, extractTagline, and the
\* fallback of the assembler
TaglineCall ==
    /\ ~ret.done
    /\ ret' = Returned(resultTagline(arg, extractMeta(arg, UrlA).description))
    /\ UNCHANGED <<server, arg>>

SpecTagline == InitTagline /\ [][TaglineCall]_vars

\* the tagline by the chain of rules, a hero text counting when its length is
\* from lo to hi
PageDescription(doc) ==
    IF doc.metaDescription.length > 0 THEN doc.metaDescription
    ELSE IF doc.ogDescription.length > 0 THEN doc.ogDescription
    ELSE doc.twitterDescription

TaglineByRules(doc, lo, hi) ==
    LET fit == {i \in 1..Len(heroSelectors) : doc.hero[i].length >= lo /\ doc.hero[i].length <= hi}
    IN  IF fit # {} THEN doc.hero[CHOOSE i \in fit : \A j \in fit : i <= j]
        ELSE IF doc.ogDescription.length \in 1..119 THEN doc.ogDescription
        ELSE IF doc.twitterDescription.length \in 1..119 THEN doc.twitterDescription
        ELSE IF doc.h1.length \in 1..149 THEN doc.h1
        ELSE split0(PageDescription(doc))

====
